---- MODULE Spec2Model ----
(***************************************************************************)
(* The camera stream registry of camera_mcp_server.py: the module-level    *)
(* map camera_streams, the tool functions start_camera, stop_camera and    *)
(* capture_from_stream run by caller threads, and the background worker    *)
(* threads _camera_stream_worker.  The code takes no lock, so every        *)
(* statement that touches camera_streams is a step of its own and the      *)
(* read-modify-write of "clients" is two steps (load, store).              *)
(***************************************************************************)
EXTENDS Integers, Sequences, FiniteSets, TLC

\* ---- bounds ------------------------------------------------------------
NumCameras == 2      \* camera identifiers of a serial run on several cameras
NumCallers == 2      \* caller threads that run tool calls concurrently
RaceCalls == 2       \* tool calls issued in a short concurrent run
MaxCalls == 3        \* tool calls issued in a long concurrent run
SeqCalls == 5        \* tool calls issued in a serial run on one camera
WideCalls == 2       \* tool calls issued in a serial run on NumCameras cameras
LiveCalls == 4       \* tool calls of a serial run under fair scheduling
MaxFrames == 2       \* frames of one device that are told apart

Callers == 1..NumCallers

VARIABLES
    camera_streams,  \* camera id -> reference of its entry dict, 0: no key
    entries,         \* the entry dicts ever created, by reference
    threads,         \* the Thread objects ever created, by reference
    call,            \* per caller thread: position and locals of its call
    log,             \* the start/stop calls that returned, in return order
    budget,          \* tool calls that may still be issued
    nthreads         \* number of caller threads in use

vars == <<camera_streams, entries, threads, call, log, budget, nthreads>>

\* ---- values ------------------------------------------------------------
None == <<0, 0>>     \* "frame": None; a frame is <<worker, read number>>

Frame(w, k) == <<w, k>>

\* the dict literal of start_camera; "thread" = 0 is the key still missing
NewEntry == [clients |-> 1, frame |-> None, stop_event |-> FALSE, thread |-> 0]

\* threading.Thread(target=_camera_stream_worker, args=(camera_id,))
\* its locals: nread frames read, nwritten frames stored, cap the open handle,
\* cause the reason the function left its loop
NewThread(c) ==
    [cid |-> c, pc |-> "new", nread |-> 0, nwritten |-> 0, cap |-> FALSE, cause |-> "none"]

\* the frame of a caller thread between calls.  pc: the statement it is at;
\* op, cid: the tool called and its camera_id; ent, tmp: the entry and the
\* count held between the load and the store of "clients" +=/-= 1; thread: the
\* Thread it holds; res, n, frame: what its last call returned (status, count,
\* image) or raised; pre: the count in the registry when the call began
Idle == [pc |-> "idle", op |-> "none", cid |-> 0, ent |-> 0, tmp |-> 0,
         thread |-> 0, res |-> "none", n |-> 0, frame |-> None, pre |-> -1]

\* camera_id in camera_streams
Present(c) == camera_streams[c] # 0

\* camera_streams[camera_id]
Entry(c) == entries[camera_streams[c]]

\* the count of the entry as the call finds it, -1 when there is no entry
PreCount(c) == IF Present(c) THEN Entry(c).clients ELSE -1

\* a call of operation o on camera c begins with its first statement
Begin(o, c) == [Idle EXCEPT !.op = o, !.cid = c, !.pre = PreCount(c)]

\* the call returns r (a status string or a raised exception)
Finish(t, r, k, f) ==
    [call EXCEPT ![t] = [Idle EXCEPT !.op = call[t].op, !.cid = call[t].cid,
                                     !.pre = call[t].pre, !.res = r,
                                     !.n = k, !.frame = f]]

\* the record of a start_camera / stop_camera call that returned r
Logged(t, r, k) ==
    Append(log, [op |-> call[t].op, cid |-> call[t].cid, res |-> r, n |-> k])

\* caller thread t is free to issue the next tool call
CanCall(t) ==
    /\ t <= nthreads
    /\ call[t].pc = "idle"
    /\ budget > 0

\* ---- start_camera ------------------------------------------------------
\* start_camera without the membership test: every call creates an entry
StartCheck_NoTest(t, c) ==
    /\ CanCall(t)
    /\ budget' = budget - 1
    /\ call' = [call EXCEPT ![t] = [Begin("start", c) EXCEPT !.pc = "s_new"]]
    /\ UNCHANGED <<camera_streams, entries, threads, log, nthreads>>

\* line 79: if camera_id not in camera_streams
StartCheck(t, c) ==
    /\ CanCall(t)
    /\ budget' = budget - 1
    /\ call' = [call EXCEPT ![t] =
                  [Begin("start", c) EXCEPT !.pc = IF Present(c) THEN "s_inc" ELSE "s_new"]]
    /\ UNCHANGED <<camera_streams, entries, threads, log, nthreads>>

\* a start_camera that takes one Event per module instead of one per entry
StartCreate_SharedEvent(t) ==
    /\ call[t].pc = "s_new"
    /\ entries' = Append(entries,
                         [NewEntry EXCEPT !.stop_event =
                              \E e \in DOMAIN entries : entries[e].stop_event])
    /\ camera_streams' = [camera_streams EXCEPT ![call[t].cid] = Len(entries) + 1]
    /\ call' = [call EXCEPT ![t].pc = "s_thread"]
    /\ UNCHANGED <<threads, log, budget, nthreads>>

\* lines 80-85: a new Event and a new entry dict are stored under camera_id
StartCreate(t) ==
    /\ call[t].pc = "s_new"
    /\ entries' = Append(entries, NewEntry)
    /\ camera_streams' = [camera_streams EXCEPT ![call[t].cid] = Len(entries) + 1]
    /\ call' = [call EXCEPT ![t].pc = "s_thread"]
    /\ UNCHANGED <<threads, log, budget, nthreads>>

\* lines 86-91: the Thread is built and stored in camera_streams[camera_id]
StartThread(t) ==
    /\ call[t].pc = "s_thread"
    /\ threads' = Append(threads, NewThread(call[t].cid))
    /\ IF Present(call[t].cid)
       THEN /\ entries' = [entries EXCEPT ![camera_streams[call[t].cid]].thread = Len(threads) + 1]
            /\ call' = [call EXCEPT ![t].pc = "s_run", ![t].thread = Len(threads) + 1]
            /\ log' = log
       ELSE /\ entries' = entries
            /\ call' = Finish(t, "KeyError", 0, None)
            /\ log' = Logged(t, "KeyError", 0)
    /\ UNCHANGED <<camera_streams, budget, nthreads>>

\* lines 92-94: thread.start(); return "Camera X started."
StartRun(t) ==
    /\ call[t].pc = "s_run"
    /\ threads' = [threads EXCEPT ![call[t].thread].pc = "open"]
    /\ call' = Finish(t, "started", 0, None)
    /\ log' = Logged(t, "started", 0)
    /\ UNCHANGED <<camera_streams, entries, budget, nthreads>>

\* line 96, load: camera_streams[camera_id]["clients"] is read
StartIncRead(t) ==
    /\ call[t].pc = "s_inc"
    /\ IF Present(call[t].cid)
       THEN /\ call' = [call EXCEPT ![t].pc = "s_inc_w",
                                    ![t].ent = camera_streams[call[t].cid],
                                    ![t].tmp = Entry(call[t].cid).clients]
            /\ log' = log
       ELSE /\ call' = Finish(t, "KeyError", 0, None)
            /\ log' = Logged(t, "KeyError", 0)
    /\ UNCHANGED <<camera_streams, entries, threads, budget, nthreads>>

\* line 96, store: the sum is stored into the entry that was loaded
StartIncWrite(t) ==
    /\ call[t].pc = "s_inc_w"
    /\ entries' = [entries EXCEPT ![call[t].ent].clients = call[t].tmp + 1]
    /\ call' = [call EXCEPT ![t].pc = "s_count", ![t].ent = 0, ![t].tmp = 0]
    /\ UNCHANGED <<camera_streams, threads, log, budget, nthreads>>

\* lines 97-99: count is read again; return "already running. Clients: count"
StartCount(t) ==
    /\ call[t].pc = "s_count"
    /\ IF Present(call[t].cid)
       THEN /\ call' = Finish(t, "running", Entry(call[t].cid).clients, None)
            /\ log' = Logged(t, "running", Entry(call[t].cid).clients)
       ELSE /\ call' = Finish(t, "KeyError", 0, None)
            /\ log' = Logged(t, "KeyError", 0)
    /\ UNCHANGED <<camera_streams, entries, threads, budget, nthreads>>

\* ---- stop_camera -------------------------------------------------------
\* stop_camera without the early return: it goes on to the decrement
StopCheck_NoReturn(t, c) ==
    /\ CanCall(t)
    /\ budget' = budget - 1
    /\ call' = [call EXCEPT ![t] = [Begin("stop", c) EXCEPT !.pc = "t_dec"]]
    /\ log' = log
    /\ UNCHANGED <<camera_streams, entries, threads, nthreads>>

\* lines 106-109: if camera_id not in camera_streams: return "not active"
StopCheck(t, c) ==
    /\ CanCall(t)
    /\ budget' = budget - 1
    /\ IF Present(c)
       THEN /\ call' = [call EXCEPT ![t] = [Begin("stop", c) EXCEPT !.pc = "t_dec"]]
            /\ log' = log
       ELSE /\ call' = [call EXCEPT ![t] = [Begin("stop", c) EXCEPT !.res = "not_active"]]
            /\ log' = Append(log, [op |-> "stop", cid |-> c, res |-> "not_active", n |-> 0])
    /\ UNCHANGED <<camera_streams, entries, threads, nthreads>>

\* line 111, load
StopDecRead(t) ==
    /\ call[t].pc = "t_dec"
    /\ IF Present(call[t].cid)
       THEN /\ call' = [call EXCEPT ![t].pc = "t_dec_w",
                                    ![t].ent = camera_streams[call[t].cid],
                                    ![t].tmp = Entry(call[t].cid).clients]
            /\ log' = log
       ELSE /\ call' = Finish(t, "KeyError", 0, None)
            /\ log' = Logged(t, "KeyError", 0)
    /\ UNCHANGED <<camera_streams, entries, threads, budget, nthreads>>

\* line 111, store
StopDecWrite(t) ==
    /\ call[t].pc = "t_dec_w"
    /\ entries' = [entries EXCEPT ![call[t].ent].clients = call[t].tmp - 1]
    /\ call' = [call EXCEPT ![t].pc = "t_rem", ![t].ent = 0, ![t].tmp = 0]
    /\ UNCHANGED <<camera_streams, threads, log, budget, nthreads>>

\* the test written as remaining < 0
LastClient_Strict(remaining) == remaining < 0

\* line 114: remaining <= 0
LastClient(remaining) == remaining <= 0

\* lines 112-114 and 120-122: remaining is read; "still running" when > 0
StopRemaining(t) ==
    /\ call[t].pc = "t_rem"
    /\ IF ~Present(call[t].cid)
       THEN /\ call' = Finish(t, "KeyError", 0, None)
            /\ log' = Logged(t, "KeyError", 0)
       ELSE IF LastClient(Entry(call[t].cid).clients)
       THEN /\ call' = [call EXCEPT ![t].pc = "t_set"]
            /\ log' = log
       ELSE /\ call' = Finish(t, "still", Entry(call[t].cid).clients, None)
            /\ log' = Logged(t, "still", Entry(call[t].cid).clients)
    /\ UNCHANGED <<camera_streams, entries, threads, budget, nthreads>>

\* a stop_camera that joins the thread without setting the stop event
StopSet_NoSet(t) ==
    /\ call[t].pc = "t_set"
    /\ IF Present(call[t].cid)
       THEN /\ entries' = entries
            /\ call' = [call EXCEPT ![t].pc = "t_join"]
            /\ log' = log
       ELSE /\ entries' = entries
            /\ call' = Finish(t, "KeyError", 0, None)
            /\ log' = Logged(t, "KeyError", 0)
    /\ UNCHANGED <<camera_streams, threads, budget, nthreads>>

\* line 115: camera_streams[camera_id]["stop_event"].set()
StopSet(t) ==
    /\ call[t].pc = "t_set"
    /\ IF Present(call[t].cid)
       THEN /\ entries' = [entries EXCEPT ![camera_streams[call[t].cid]].stop_event = TRUE]
            /\ call' = [call EXCEPT ![t].pc = "t_join"]
            /\ log' = log
       ELSE /\ entries' = entries
            /\ call' = Finish(t, "KeyError", 0, None)
            /\ log' = Logged(t, "KeyError", 0)
    /\ UNCHANGED <<camera_streams, threads, budget, nthreads>>

\* line 116, call: camera_streams[camera_id]["thread"].join() looks the thread
\* up; join() raises RuntimeError on a thread that was not started
StopJoin(t) ==
    /\ call[t].pc = "t_join"
    /\ IF ~Present(call[t].cid) \/ Entry(call[t].cid).thread = 0
       THEN /\ call' = Finish(t, "KeyError", 0, None)
            /\ log' = Logged(t, "KeyError", 0)
       ELSE IF threads[Entry(call[t].cid).thread].pc = "new"
       THEN /\ call' = Finish(t, "RuntimeError", 0, None)
            /\ log' = Logged(t, "RuntimeError", 0)
       ELSE /\ call' = [call EXCEPT ![t].pc = "t_wait",
                                    ![t].thread = Entry(call[t].cid).thread]
            /\ log' = log
    /\ UNCHANGED <<camera_streams, entries, threads, budget, nthreads>>

\* a join() that does not wait for the thread
Joinable_NoWait(w) == TRUE

\* a join() that returns only for a thread that the stop event ended
Joinable_OnlyStopped(w) == threads[w].pc = "Stopped" /\ threads[w].cause = "stop"

\* join() returns once the thread has terminated
Joinable(w) == threads[w].pc = "Stopped"

\* line 116, return of join()
StopJoined(t) ==
    /\ call[t].pc = "t_wait"
    /\ Joinable(call[t].thread)
    /\ call' = [call EXCEPT ![t].pc = "t_del", ![t].thread = 0]
    /\ UNCHANGED <<camera_streams, entries, threads, log, budget, nthreads>>

\* lines 117-119: del camera_streams[camera_id]; return "Camera X stopped."
StopDel(t) ==
    /\ call[t].pc = "t_del"
    /\ IF Present(call[t].cid)
       THEN /\ camera_streams' = [camera_streams EXCEPT ![call[t].cid] = 0]
            /\ call' = Finish(t, "stopped", 0, None)
            /\ log' = Logged(t, "stopped", 0)
       ELSE /\ camera_streams' = camera_streams
            /\ call' = Finish(t, "KeyError", 0, None)
            /\ log' = Logged(t, "KeyError", 0)
    /\ UNCHANGED <<entries, threads, budget, nthreads>>

\* ---- capture_from_stream -----------------------------------------------
\* lines 147-148: raise ValueError("not streaming") when there is no entry
StreamCheck(t, c) ==
    /\ CanCall(t)
    /\ call' = [call EXCEPT ![t] =
                  IF Present(c)
                  THEN [Begin("stream", c) EXCEPT !.pc = "c_read"]
                  ELSE [Begin("stream", c) EXCEPT !.res = "NotStreaming"]]
    /\ budget' = budget - 1
    /\ UNCHANGED <<camera_streams, entries, threads, log, nthreads>>

\* capture_from_stream without the test of line 151: None is encoded too
StreamRead_NoNoneTest(t) ==
    /\ call[t].pc = "c_read"
    /\ call' = IF ~Present(call[t].cid)
               THEN Finish(t, "KeyError", 0, None)
               ELSE Finish(t, "frame", 0, Entry(call[t].cid).frame)
    /\ UNCHANGED <<camera_streams, entries, threads, log, budget, nthreads>>

\* lines 150-156: the frame is read; RuntimeError("No frame available yet")
\* when it is None, else the frame is encoded and returned
StreamRead(t) ==
    /\ call[t].pc = "c_read"
    /\ call' = IF ~Present(call[t].cid)
               THEN Finish(t, "KeyError", 0, None)
               ELSE IF Entry(call[t].cid).frame = None
               THEN Finish(t, "NoFrameYet", 0, None)
               ELSE Finish(t, "frame", 0, Entry(call[t].cid).frame)
    /\ UNCHANGED <<camera_streams, entries, threads, log, budget, nthreads>>

\* ---- capture_image -----------------------------------------------------
\* lines 129-131: cv2.VideoCapture(int(camera_id)); RuntimeError("Cannot open
\* camera") when the device does not open.  The device decides
ImageOpen(t, c) ==
    /\ CanCall(t)
    /\ budget' = budget - 1
    /\ \E opened \in BOOLEAN :
         call' = [call EXCEPT ![t] =
                    IF opened
                    THEN [Begin("image", c) EXCEPT !.pc = "i_read"]
                    ELSE [Begin("image", c) EXCEPT !.res = "DeviceUnavailable"]]
    /\ UNCHANGED <<camera_streams, entries, threads, log, nthreads>>

\* a capture_image that keeps its frame in the stream entry of the camera
ImageRead_Caches(t) ==
    /\ call[t].pc = "i_read"
    /\ call' = Finish(t, "image", 0, Frame(0, 1))
    /\ entries' = IF Present(call[t].cid)
                  THEN [entries EXCEPT ![camera_streams[call[t].cid]].frame = Frame(0, 1)]
                  ELSE entries
    /\ UNCHANGED <<camera_streams, threads, log, budget, nthreads>>

\* lines 133-140: ret, frame = cap.read(); cap.release(); RuntimeError("Failed
\* to capture image") when not ret, else the frame is encoded and returned.
\* Frame(0, 1) is the frame read through the transient handle
ImageRead(t) ==
    /\ call[t].pc = "i_read"
    /\ \E ret \in BOOLEAN :
         call' = IF ret
                 THEN Finish(t, "image", 0, Frame(0, 1))
                 ELSE Finish(t, "CaptureFailed", 0, None)
    /\ UNCHANGED <<camera_streams, entries, threads, log, budget, nthreads>>

\* ---- _camera_stream_worker ---------------------------------------------
Started(w) == threads[w].pc \notin {"new", "Stopped"}

\* lines 24-27: cv2.VideoCapture(int(camera_id)); return when not opened
WorkerOpen(w) ==
    /\ threads[w].pc = "open"
    /\ \E opened \in BOOLEAN :
         threads' = [threads EXCEPT ![w] =
                       IF opened
                       THEN [@ EXCEPT !.pc = "check", !.cap = TRUE]
                       ELSE [@ EXCEPT !.pc = "Stopped", !.cause = "open_failed"]]
    /\ UNCHANGED <<camera_streams, entries, call, log, budget, nthreads>>

\* line 31: while not camera_streams[camera_id]["stop_event"].is_set()
WorkerCheck(w) ==
    /\ threads[w].pc = "check"
    /\ threads' = [threads EXCEPT ![w] =
                     IF ~Present(threads[w].cid)
                     THEN [@ EXCEPT !.pc = "release", !.cause = "KeyError"]
                     ELSE IF Entry(threads[w].cid).stop_event
                     THEN [@ EXCEPT !.pc = "release", !.cause = "stop"]
                     ELSE [@ EXCEPT !.pc = "read"]]
    /\ UNCHANGED <<camera_streams, entries, call, log, budget, nthreads>>

\* the frames of a device are numbered 1, 2, ...; from MaxFrames on they are
\* no longer told apart
NextFrame(k) == IF k < MaxFrames THEN k + 1 ELSE MaxFrames

\* a loop without the finally of lines 38-39: the break ends the thread
WorkerRead_NoFinally(w) ==
    /\ threads[w].pc = "read"
    /\ \E ret \in BOOLEAN :
         /\ threads' = [threads EXCEPT ![w] =
                          IF ret
                          THEN [@ EXCEPT !.pc = "write", !.nread = NextFrame(@)]
                          ELSE [@ EXCEPT !.pc = "Stopped", !.cause = "eos"]]
    /\ UNCHANGED <<camera_streams, entries, call, log, budget, nthreads>>

\* lines 32-35: ret, frame = cap.read(); break when not ret.  The device
\* decides ret
WorkerRead(w) ==
    /\ threads[w].pc = "read"
    /\ \E ret \in BOOLEAN :
         /\ threads' = [threads EXCEPT ![w] =
                          IF ret
                          THEN [@ EXCEPT !.pc = "write", !.nread = NextFrame(@)]
                          ELSE [@ EXCEPT !.pc = "release", !.cause = "eos"]]
    /\ UNCHANGED <<camera_streams, entries, call, log, budget, nthreads>>

\* a worker that stores its frame in every entry of the registry
WorkerWrite_AllEntries(w) ==
    /\ threads[w].pc = "write"
    /\ IF Present(threads[w].cid)
       THEN /\ entries' = [e \in DOMAIN entries |->
                             IF \E c \in DOMAIN camera_streams : camera_streams[c] = e
                             THEN [entries[e] EXCEPT !.frame = Frame(w, threads[w].nread)]
                             ELSE entries[e]]
            /\ threads' = [threads EXCEPT ![w].pc = "check", ![w].nwritten = threads[w].nread]
       ELSE /\ entries' = entries
            /\ threads' = [threads EXCEPT ![w].pc = "release", ![w].cause = "KeyError"]
    /\ UNCHANGED <<camera_streams, call, log, budget, nthreads>>

\* a loop that tests the stop event only on entry and reads again after
\* each store
WorkerWrite_NoRecheck(w) ==
    /\ threads[w].pc = "write"
    /\ IF Present(threads[w].cid)
       THEN /\ entries' = [entries EXCEPT ![camera_streams[threads[w].cid]].frame =
                                             Frame(w, threads[w].nread)]
            /\ threads' = [threads EXCEPT ![w].pc = "read", ![w].nwritten = threads[w].nread]
       ELSE /\ entries' = entries
            /\ threads' = [threads EXCEPT ![w].pc = "release", ![w].cause = "KeyError"]
    /\ UNCHANGED <<camera_streams, call, log, budget, nthreads>>

\* lines 36-37: camera_streams[camera_id]["frame"] = frame
WorkerWrite(w) ==
    /\ threads[w].pc = "write"
    /\ IF Present(threads[w].cid)
       THEN /\ entries' = [entries EXCEPT ![camera_streams[threads[w].cid]].frame =
                                             Frame(w, threads[w].nread)]
            /\ threads' = [threads EXCEPT ![w].pc = "check", ![w].nwritten = threads[w].nread]
       ELSE /\ entries' = entries
            /\ threads' = [threads EXCEPT ![w].pc = "release", ![w].cause = "KeyError"]
    /\ UNCHANGED <<camera_streams, call, log, budget, nthreads>>

\* a worker that removes the entry of its camera when it ends
WorkerRelease_DropsEntry(w) ==
    /\ threads[w].pc = "release"
    /\ threads' = [threads EXCEPT ![w].pc = "Stopped", ![w].cap = FALSE]
    /\ camera_streams' = [camera_streams EXCEPT ![threads[w].cid] = 0]
    /\ UNCHANGED <<entries, call, log, budget, nthreads>>

\* lines 38-40: finally: cap.release(); the thread ends
WorkerRelease(w) ==
    /\ threads[w].pc = "release"
    /\ threads' = [threads EXCEPT ![w].pc = "Stopped", ![w].cap = FALSE]
    /\ UNCHANGED <<camera_streams, entries, call, log, budget, nthreads>>

\* ---- specifications ----------------------------------------------------
\* the module is loaded: camera_streams = {}, no thread; nc camera identifiers
\* are in use, nt caller threads issue b tool calls in all
InitWith(nc, nt, b) ==
    /\ camera_streams = [c \in 0..(nc - 1) |-> 0]
    /\ entries = <<>>
    /\ threads = <<>>
    /\ call = [t \in Callers |-> Idle]
    /\ log = <<>>
    /\ budget = b
    /\ nthreads = nt

\* one caller thread: tool calls run one after another, workers concurrently;
\* a long run on one camera or a short run on NumCameras cameras
InitSeq == InitWith(1, 1, SeqCalls) \/ InitWith(NumCameras, 1, WideCalls)

\* tool calls of NumCallers caller threads on one camera interleave statement
\* by statement
InitRace == InitWith(1, NumCallers, RaceCalls)

\* the same with a budget of MaxCalls calls
InitConc == InitWith(1, NumCallers, MaxCalls)

Init == InitRace \/ InitSeq

Next ==
    \/ \E t \in Callers, c \in DOMAIN camera_streams : StartCheck(t, c)
    \/ \E t \in Callers : StartCreate(t)
    \/ \E t \in Callers : StartThread(t)
    \/ \E t \in Callers : StartRun(t)
    \/ \E t \in Callers : StartIncRead(t)
    \/ \E t \in Callers : StartIncWrite(t)
    \/ \E t \in Callers : StartCount(t)
    \/ \E t \in Callers, c \in DOMAIN camera_streams : StopCheck(t, c)
    \/ \E t \in Callers : StopDecRead(t)
    \/ \E t \in Callers : StopDecWrite(t)
    \/ \E t \in Callers : StopRemaining(t)
    \/ \E t \in Callers : StopSet(t)
    \/ \E t \in Callers : StopJoin(t)
    \/ \E t \in Callers : StopJoined(t)
    \/ \E t \in Callers : StopDel(t)
    \/ \E t \in Callers, c \in DOMAIN camera_streams : StreamCheck(t, c)
    \/ \E t \in Callers : StreamRead(t)
    \/ \E t \in Callers, c \in DOMAIN camera_streams : ImageOpen(t, c)
    \/ \E t \in Callers : ImageRead(t)
    \/ \E w \in DOMAIN threads : WorkerOpen(w)
    \/ \E w \in DOMAIN threads : WorkerCheck(w)
    \/ \E w \in DOMAIN threads : WorkerRead(w)
    \/ \E w \in DOMAIN threads : WorkerWrite(w)
    \/ \E w \in DOMAIN threads : WorkerRelease(w)

Spec == Init /\ [][Next]_vars

\* the statements of a tool call that caller thread t has begun
CallStep(t) ==
    \/ StartCreate(t) \/ StartThread(t) \/ StartRun(t)
    \/ StartIncRead(t) \/ StartIncWrite(t) \/ StartCount(t)
    \/ StopDecRead(t) \/ StopDecWrite(t) \/ StopRemaining(t)
    \/ StopSet(t) \/ StopJoin(t) \/ StopJoined(t) \/ StopDel(t)
    \/ StreamRead(t) \/ ImageRead(t)

\* the statements of worker thread w, once it exists
WorkerStep(w) ==
    /\ w \in DOMAIN threads
    /\ \/ WorkerOpen(w) \/ WorkerCheck(w) \/ WorkerRead(w)
       \/ WorkerWrite(w) \/ WorkerRelease(w)

\* every started thread keeps being scheduled and every device read returns;
\* whether and when clients make a tool call is left open
Fairness ==
    /\ \A t \in Callers : WF_vars(CallStep(t))
    /\ \A w \in 1..LiveCalls : WF_vars(WorkerStep(w))

\* tool calls one after another, under fair scheduling of the threads
InitLive == InitWith(1, 1, LiveCalls)

SpecLive == InitLive /\ [][Next]_vars /\ Fairness

SpecSeq == InitSeq /\ [][Next]_vars

SpecConc == InitConc /\ [][Next]_vars

TypeOK ==
    /\ \A c \in DOMAIN camera_streams : camera_streams[c] \in 0..Len(entries)
    /\ \A e \in DOMAIN entries : entries[e].thread \in 0..Len(threads)
    /\ budget \in Nat

\* ---- vocabulary of the properties ---------------------------------------
\* the worker threads of camera c that were started and have not ended
LiveWorkers(c) == {w \in DOMAIN threads : threads[w].cid = c /\ Started(w)}

\* the worker threads ever started for camera c
StartedWorkers(c) == {w \in DOMAIN threads : threads[w].cid = c /\ threads[w].pc # "new"}

\* the start/stop calls on camera c that returned, in order
CallsOn(c) == SelectSeq(log, LAMBDA r : r.cid = c)

\* some tool call on camera c has not returned yet
InFlight(c) == \E t \in Callers : call[t].pc # "idle" /\ call[t].cid = c

\* only start_camera calls on camera c have returned, and at least one
OnlyStarts(c) ==
    /\ CallsOn(c) # <<>>
    /\ \A i \in DOMAIN CallsOn(c) : CallsOn(c)[i].op = "start"

\* C1: at most one worker thread that has not reached Stopped exists for a
\* camera identifier, under every interleaving of start_camera and
\* stop_camera calls of concurrent callers.
C1_OneWorkerPerCamera ==
    \A c \in DOMAIN camera_streams : Cardinality(LiveWorkers(c)) <= 1

\* C2: when k start_camera calls on one identifier, with no stop_camera, have
\* all returned, the entry's clients equals k.
C2_NoLostIncrement ==
    \A c \in DOMAIN camera_streams :
        (OnlyStarts(c) /\ ~InFlight(c)) =>
            (Present(c) /\ Entry(c).clients = Len(CallsOn(c)))

\* C3: the clients count of an entry of the registry is never negative.
C3_CountNeverNegative ==
    \A c \in DOMAIN camera_streams : Present(c) => Entry(c).clients >= 0

\* C4: an entry is in the registry iff its count is >= 1 as far as any call
\* can observe: the count a start_camera or stop_camera call loads from the
\* entry it found (to increment or decrement it) is never below 1.
C4_NoCallObservesZeroCount ==
    \A t \in Callers :
        call[t].pc \in {"s_inc_w", "t_dec_w"} => call[t].tmp >= 1

\* ---- serial calls ---------------------------------------------------------
\* the call left no entry behind: it removed it or found none
Gone(r) == r.res \in {"stopped", "not_active"}

LastGone(s, k) ==
    LET I == {i \in 1..k : Gone(s[i])}
    IN  IF I = {} THEN 0 ELSE CHOOSE i \in I : \A j \in I : j <= i

\* the calls on camera c since it last had no entry, the latest call included
Session(c) ==
    LET s == CallsOn(c) IN SubSeq(s, LastGone(s, Len(s) - 1) + 1, Len(s))

NumOps(s, o) == Cardinality({i \in DOMAIN s : s[i].op = o})

\* N >= 1 start_camera calls, then only stop_camera calls
StartsThenStops(s) ==
    /\ NumOps(s, "start") >= 1
    /\ \A i \in DOMAIN s : s[i].op = "start" <=> i <= NumOps(s, "start")

\* the sessions of camera c that were closed by a stop_camera
Closed(c) == {i \in DOMAIN CallsOn(c) : CallsOn(c)[i].res = "stopped"}

\* C5: N consecutive start_camera calls on an identifier that had no entry
\* start exactly one worker thread in total and leave the entry with
\* clients = N.
C5_StartsShareOneWorker ==
    \A c \in DOMAIN camera_streams :
        LET s == Session(c) IN
        (StartsThenStops(s) /\ NumOps(s, "stop") = 0 /\ ~InFlight(c)) =>
            /\ Present(c)
            /\ Entry(c).clients = Len(s)
            /\ Cardinality(StartedWorkers(c)) = Cardinality(Closed(c)) + 1
            /\ Entry(c).thread \in StartedWorkers(c)

C5_Witness ==
    \E c \in DOMAIN camera_streams :
        /\ Closed(c) # {}
        /\ StartsThenStops(Session(c)) /\ Len(Session(c)) = 3
        /\ NumOps(Session(c), "stop") = 0 /\ ~InFlight(c)
        /\ Entry(c).clients = 3

\* C6: after N start_camera calls followed by exactly N stop_camera calls the
\* registry has no entry for the identifier and its worker thread is Stopped;
\* after fewer than N stop_camera calls the entry is still present and its
\* stop signal is not raised.
C6_StopsReleaseTheStream ==
    \A c \in DOMAIN camera_streams :
        LET s == Session(c)
            N == NumOps(s, "start")
            M == NumOps(s, "stop")
        IN  (StartsThenStops(s) /\ M >= 1 /\ ~InFlight(c)) =>
                /\ M <= N
                /\ M = N => /\ ~Present(c)
                            /\ \A w \in DOMAIN threads :
                                  threads[w].cid = c => threads[w].pc = "Stopped"
                /\ M < N => /\ Present(c)
                            /\ ~Entry(c).stop_event
                            /\ Entry(c).clients = N - M

C6_Witness ==
    \E c \in DOMAIN camera_streams :
        /\ StartsThenStops(Session(c))
        /\ NumOps(Session(c), "start") = 2 /\ NumOps(Session(c), "stop") = 2
        /\ ~InFlight(c) /\ ~Present(c)
        /\ \E w \in DOMAIN threads : threads[w].cid = c /\ threads[w].cause = "stop"

\* C7: stop_camera on an identifier that has no entry returns the not-active
\* outcome and leaves the whole registry unchanged: no entry is created or
\* removed, no count changes, no stop signal is raised (every step that is the
\* first statement of stop_camera(c), taken while c has no entry, ends the call
\* with "not active" and changes neither the map, nor an entry, nor a thread).
C7_StopWithoutEntry ==
    [][\A t \in Callers, c \in DOMAIN camera_streams :
          (StopCheck(t, c) /\ ~Present(c)) =>
              /\ call'[t].pc = "idle" /\ call'[t].res = "not_active"
              /\ log' = Append(log, [op |-> "stop", cid |-> c, res |-> "not_active", n |-> 0])
              /\ UNCHANGED <<camera_streams, entries, threads>>]_vars

C7_Witness ==
    \E t \in Callers, c \in DOMAIN camera_streams :
        /\ call[t].pc = "idle" /\ call[t].op = "stop" /\ call[t].res = "not_active"
        /\ ~Present(call[t].cid)
        /\ Present(c) /\ Entry(c).thread # 0 /\ Started(Entry(c).thread)

Ops(s) == [i \in DOMAIN s |-> s[i].op]

Results(s) == [i \in DOMAIN s |-> <<s[i].res, s[i].n>>]

\* C8: the result of start_camera and stop_camera reports the transition the
\* call performed: "started" exactly when it created the entry, otherwise
\* "already running" with the count after its increment; "still running" with
\* the count after its decrement when that is >= 1, "stopped" exactly when it
\* removed the entry, not-active when there was no entry; and start, start,
\* stop, stop, stop yields started, Clients: 2, Clients: 1, stopped,
\* not-active.
C8_ResultReportsTransition ==
    /\ \A t \in Callers :
          LET r == call[t]
              c == r.cid
          IN  /\ (r.pc = "idle" /\ r.op = "start") =>
                    /\ r.res \in {"started", "running"}
                    /\ r.res = "started" <=> r.pre = -1
                    /\ Present(c)
                    /\ r.res = "started" => Entry(c).clients = 1
                    /\ r.res = "running" => r.n = r.pre + 1 /\ Entry(c).clients = r.n
              /\ (r.pc = "idle" /\ r.op = "stop") =>
                    /\ r.res \in {"still", "stopped", "not_active"}
                    /\ r.res = "not_active" <=> r.pre = -1
                    /\ r.res = "stopped" <=> (r.pre # -1 /\ ~Present(c))
                    /\ r.res = "still" =>
                          /\ r.n = r.pre - 1 /\ r.n >= 1
                          /\ Present(c) /\ Entry(c).clients = r.n
    /\ \A c \in DOMAIN camera_streams :
          Ops(CallsOn(c)) = <<"start", "start", "stop", "stop", "stop">> =>
              Results(CallsOn(c)) = << <<"started", 0>>, <<"running", 2>>, <<"still", 1>>,
                                       <<"stopped", 0>>, <<"not_active", 0>> >>

C8_Witness ==
    /\ Ops(CallsOn(0)) = <<"start", "start", "stop", "stop", "stop">>
    /\ call[1].res = "not_active"

\* a step in which the capture_from_stream call of caller t reads the frame
\* slot and returns
StreamReturns(t) == call[t].pc = "c_read" /\ call'[t].pc = "idle"

\* the outcome of capture_from_stream(c) by caller t in this step, given the
\* number of frames that counts as "the worker has delivered"
StreamOutcome(t, Delivered(_)) ==
    /\ \A c \in DOMAIN camera_streams :
          (StreamCheck(t, c) /\ ~Present(c)) =>
              call'[t].pc = "idle" /\ call'[t].res = "NotStreaming"
    /\ StreamReturns(t) =>
          /\ Present(call[t].cid)
          /\ LET w == Entry(call[t].cid).thread
             IN  IF w = 0 \/ Delivered(w) = 0
                 THEN call'[t].res = "NoFrameYet"
                 ELSE /\ call'[t].res = "frame"
                      /\ call'[t].frame = Frame(w, threads[w].nwritten)

\* the successful reads worker w has completed
ReadsOf(w) == threads[w].nread

\* the frames worker w has stored in the registry
WritesOf(w) == threads[w].nwritten

\* C9 as written: capture_from_stream fails with NotStreaming when there is no
\* entry, with NoFrameYet when the entry's worker has completed no successful
\* read since the entry was created, and otherwise returns the frame most
\* recently written by the worker.
C9_AsWritten == [][\A t \in Callers : StreamOutcome(t, ReadsOf)]_vars

\* C9, amended: capture_from_stream fails with NotStreaming when there is no
\* entry, with NoFrameYet when the entry's worker has stored no frame in the
\* entry since it was created (also after a stop and restart: no frame of an
\* earlier session is returned), and otherwise returns the frame most recently
\* written by the entry's worker.
C9_LatestFrameOfOwnWorker == [][\A t \in Callers : StreamOutcome(t, WritesOf)]_vars

C9_Witness ==
    \E t \in Callers :
        /\ call[t].pc = "idle" /\ call[t].op = "stream" /\ call[t].res = "frame"
        /\ Closed(call[t].cid) # {}
        /\ call[t].frame = Frame(Entry(call[t].cid).thread, 2)
        /\ Entry(call[t].cid).thread = 2

\* C10: when the worker started by start_camera fails to open its device,
\* start_camera reports failure and the registry is left with no entry for
\* the identifier: once the call has returned there is no entry whose worker
\* ended on the failed open, and no "started" result for such a worker.
C10_FailedOpenLeavesNoEntry ==
    \A c \in DOMAIN camera_streams :
        (Present(c) /\ ~InFlight(c) /\ Entry(c).thread # 0) =>
            threads[Entry(c).thread].cause # "open_failed"

\* C11: capture_image never changes the stream registry, whatever its outcome
\* (DeviceUnavailable, CaptureFailed or an image) and whether or not a stream
\* is active for the identifier: the entries, every count, latest frame, stop
\* signal and worker are the same after each of its steps as before.
C11_CaptureImageBypassesRegistry ==
    [][\A t \in Callers :
          ((\E c \in DOMAIN camera_streams : ImageOpen(t, c)) \/ ImageRead(t)) =>
              UNCHANGED <<camera_streams, entries, threads, log>>]_vars

C11_Witness ==
    \E t \in Callers :
        /\ call[t].pc = "idle" /\ call[t].op = "image" /\ call[t].res = "image"
        /\ Present(call[t].cid)
        /\ Entry(call[t].cid).frame # None
        /\ Entry(call[t].cid).thread # 0 /\ Started(Entry(call[t].cid).thread)

\* no entry in the registry and no tool call in progress
AllReleased ==
    /\ \A c \in DOMAIN camera_streams : ~Present(c)
    /\ \A t \in Callers : call[t].pc = "idle"

SignalRaised(w) ==
    Present(threads[w].cid) /\ Entry(threads[w].cid).stop_event

\* C13: the worker tests the stop signal before every device read: a read is
\* only begun from a test that found the signal not raised; a test that finds
\* it raised leads to the release; and once the worker has observed it raised
\* it reads nothing more, writes no frame and only goes on to Stopped.  So of
\* the reads, only the one in progress when the signal was raised completes.
C13_StopTestedBeforeEveryRead ==
    [][\A w \in DOMAIN threads :
          /\ (threads'[w].pc = "read" /\ threads[w].pc # "read") =>
                 (threads[w].pc = "check" /\ ~SignalRaised(w))
          /\ (threads[w].pc = "check" /\ SignalRaised(w) /\ threads'[w] # threads[w]) =>
                 (threads'[w].pc = "release" /\ threads'[w].cause = "stop")
          /\ threads[w].cause = "stop" =>
                 /\ threads'[w].nread = threads[w].nread
                 /\ threads'[w].nwritten = threads[w].nwritten
                 /\ threads'[w].pc \in {threads[w].pc, "Stopped"}
                 /\ \A e \in DOMAIN entries :
                        entries'[e].frame # entries[e].frame => entries'[e].frame[1] # w]_vars

\* a worker that read and stored a frame found the signal raised at its next
\* test and is about to release the device
C13_Witness ==
    \E w \in DOMAIN threads :
        /\ threads[w].cause = "stop" /\ threads[w].pc = "release"
        /\ threads[w].nread = 1 /\ threads[w].nwritten = 1
        /\ threads[w].nread < MaxFrames

\* caller t has found remaining <= 0 in stop_camera (line 114)
StopsLast(t) == call[t].pc \in {"t_set", "t_join", "t_wait", "t_del"}

\* stop_camera has returned "stopped" to caller t, the entry is removed and
\* every worker of the camera has terminated
StoppedFor(t) ==
    /\ call[t].pc = "idle" /\ call[t].op = "stop" /\ call[t].res = "stopped"
    /\ ~Present(call[t].cid)
    /\ \A w \in DOMAIN threads : threads[w].cid = call[t].cid => threads[w].pc = "Stopped"

\* C14: under fair scheduling of the threads, with every device read
\* returning, a stop_camera call whose decrement brings the count to 0
\* eventually returns "stopped" with the entry removed and the worker Stopped;
\* and the call does not pass its join before the worker has terminated.
C14_LastStopTerminates ==
    /\ \A t \in Callers : StopsLast(t) ~> StoppedFor(t)
    /\ [][\A t \in Callers :
             (StopJoined(t) \/ StopDel(t)) =>
                 \A w \in DOMAIN threads :
                     threads[w].cid = call[t].cid => threads[w].pc = "Stopped"]_vars

\* the call returned after waiting for a worker that the stop event ended
C14_Witness ==
    \E t \in Callers :
        /\ StoppedFor(t)
        /\ \E w \in DOMAIN threads :
               /\ threads[w].cid = call[t].cid
               /\ threads[w].cause = "stop" /\ threads[w].nwritten = MaxFrames

\* worker w is in its capture loop (lines 31-37)
Running(w) == threads[w].pc \in {"check", "read", "write"}

\* C15: an entry is removed only after its worker has reached Stopped: in
\* every reachable state, under any interleaving of start_camera and
\* stop_camera calls, a worker still Running has an entry for its identifier,
\* and no worker ever looks up a missing entry.
C15_RunningWorkerHasEntry ==
    \A w \in DOMAIN threads :
        /\ Running(w) => Present(threads[w].cid)
        /\ threads[w].cause # "KeyError"

\* the worker recorded in the entry of camera c has ended on a failed read
EndedOnEOS(c) ==
    /\ Present(c) /\ Entry(c).thread # 0
    /\ threads[Entry(c).thread].cause = "eos"

\* C16: when the read of a Running worker fails (end of stream) the worker
\* goes to Stopped without reading again, and the registry is not changed by
\* that: the entry stays with the same count, no worker is started, and with
\* tool calls made one after another capture_from_stream keeps returning the
\* last frame the worker stored for as long as the entry exists.
C16_EndOfStreamKeepsEntry ==
    [][/\ \A w \in DOMAIN threads :
            /\ (threads'[w] # threads[w] /\ threads'[w].cause = "eos") =>
                   /\ UNCHANGED <<camera_streams, entries>>
                   /\ DOMAIN threads' = DOMAIN threads
                   /\ threads'[w].pc \in {"release", "Stopped"}
            /\ threads[w].cause = "eos" =>
                   /\ threads'[w].nread = threads[w].nread
                   /\ threads'[w].pc \in {threads[w].pc, "Stopped"}
       /\ \A t \in Callers :
            (StreamReturns(t) /\ EndedOnEOS(call[t].cid)) =>
                LET w == Entry(call[t].cid).thread
                IN  IF threads[w].nwritten = 0
                    THEN call'[t].res = "NoFrameYet"
                    ELSE /\ call'[t].res = "frame"
                         /\ call'[t].frame = Frame(w, threads[w].nwritten)]_vars

\* capture_from_stream returned the last frame of a worker that ended on a
\* failed read, and the entry is still there with its count
C16_Witness ==
    \E t \in Callers :
        /\ call[t].pc = "idle" /\ call[t].op = "stream" /\ call[t].res = "frame"
        /\ EndedOnEOS(call[t].cid)
        /\ Entry(call[t].cid).clients = 2
        /\ LET w == Entry(call[t].cid).thread
           IN  /\ threads[w].pc = "Stopped"
               /\ call[t].frame = Frame(w, threads[w].nwritten)

\* the worker recorded in the entry of camera c has ended by itself: its device
\* did not open, or a read failed
DeadWorker(c) ==
    /\ Present(c) /\ Entry(c).thread # 0
    /\ threads[Entry(c).thread].pc = "Stopped"
    /\ threads[Entry(c).thread].cause \in {"open_failed", "eos"}

\* caller t is inside a stop_camera call
InStop(t) == call[t].op = "stop" /\ call[t].pc # "idle"

\* C17: stop_camera succeeds on an entry whose worker has already ended by
\* itself (open failed, or end of stream): it still decrements the count; no
\* statement of the call waits (the caller's next step is always enabled); it
\* returns "still running" with the new count or, when the count reaches 0,
\* goes on to remove the entry and return "stopped"; and a last stop, once
\* begun, does return "stopped" with the entry removed.
C17_StopAfterWorkerDied ==
    /\ [](\A t \in Callers :
             (InStop(t) /\ DeadWorker(call[t].cid)) => ENABLED CallStep(t))
    /\ [][\A t \in Callers :
             (InStop(t) /\ DeadWorker(call[t].cid)) =>
                 /\ StopDecWrite(t) =>
                        entries'[camera_streams'[call[t].cid]].clients = call[t].pre - 1
                 /\ call'[t].pc = "idle" =>
                        \/ /\ call'[t].res = "still"
                           /\ call'[t].n = call[t].pre - 1 /\ call'[t].n > 0
                           /\ Present(call[t].cid)'
                        \/ /\ call'[t].res = "stopped"
                           /\ call[t].pre - 1 <= 0
                           /\ ~Present(call[t].cid)']_vars
    /\ \A t \in Callers :
           (StopsLast(t) /\ DeadWorker(call[t].cid)) ~> StoppedFor(t)

\* stop_camera returned "stopped" for a camera whose device never opened
C17_Witness ==
    \E t \in Callers :
        /\ StoppedFor(t)
        /\ \E w \in DOMAIN threads :
               /\ threads[w].cid = call[t].cid /\ threads[w].cause = "open_failed"
        /\ \A w \in DOMAIN threads : threads[w].cause # "stop"

\* C18: the frame of an entry is written only by that entry's own worker, the
\* one whose thread is stored in the entry: under any interleaving of
\* start_camera and stop_camera calls no worker of an earlier session and no
\* second worker writes into the current entry, and no tool call writes a
\* frame (a new entry starts with no frame).
C18_FrameWrittenByOwnWorker ==
    [][/\ \A e \in DOMAIN entries :
            entries'[e].frame # entries[e].frame =>
                /\ entries[e].thread # 0
                /\ entries'[e].frame[1] = entries[e].thread
                /\ WorkerWrite(entries[e].thread)
       /\ \A e \in DOMAIN entries' \ DOMAIN entries : entries'[e].frame = None]_vars

\* start_camera returns "started" to caller t for a camera that had a worker
\* before
Restarted(t) ==
    /\ StartRun(t)
    /\ \E w \in DOMAIN threads : w # call[t].thread /\ threads[w].cid = call[t].cid

\* C19: with tool calls made one after another, the start_camera that follows
\* the removal of a camera's entry creates a fresh entry with count 1, no
\* frame and a new stop signal that is not raised, and starts a new worker;
\* and a worker is stopped only by the signal of its own entry, never by the
\* one raised for an earlier session.
C19_RestartIsFresh ==
    /\ [][\A t \in Callers :
             Restarted(t) =>
                 LET c == call[t].cid
                     w == call[t].thread
                     e == camera_streams'[c]
                 IN  /\ call'[t].res = "started"
                     /\ e = Len(entries) /\ e # 0
                     /\ entries'[e] = [NewEntry EXCEPT !.thread = w]
                     /\ w = Len(threads) /\ threads'[w].pc = "open"
                     /\ \A e2 \in DOMAIN entries : e2 # e => entries[e2].thread # w
                     /\ \A w2 \in DOMAIN threads :
                            (w2 # w /\ threads[w2].cid = c) => threads[w2].pc = "Stopped"]_vars
    /\ [](\A w \in DOMAIN threads :
             threads[w].cause = "stop" =>
                 \E e \in DOMAIN entries : entries[e].thread = w /\ entries[e].stop_event)

\* the second session of a camera delivers frames while the stop signal of its
\* first session is still raised
C19_Witness ==
    \E c \in DOMAIN camera_streams :
        /\ Present(c) /\ camera_streams[c] > 1
        /\ ~Entry(c).stop_event /\ Entry(c).clients = 1
        /\ Entry(c).thread # 0 /\ Entry(c).frame = Frame(Entry(c).thread, 1)
        /\ \E e \in DOMAIN entries :
               /\ e < camera_streams[c] /\ entries[e].stop_event
               /\ entries[e].thread # 0 /\ threads[entries[e].thread].cid = c
               /\ threads[entries[e].thread].cause = "stop"

\* what the registry and the threads hold for camera b: whether it has an
\* entry and which, the entry's count, frame, stop signal and thread, and the
\* state of every worker of b
StreamOf(b) ==
    <<camera_streams[b],
      IF Present(b) THEN <<Entry(b)>> ELSE <<>>,
      {<<w, threads[w]>> : w \in {v \in DOMAIN threads : threads[v].cid = b}}>>

\* caller t executes a statement of start_camera, stop_camera or
\* capture_from_stream on camera a
CallOn(t, a) ==
    \/ StartCheck(t, a) \/ StopCheck(t, a) \/ StreamCheck(t, a)
    \/ /\ call[t].cid = a /\ call[t].op \in {"start", "stop", "stream"}
       /\ CallStep(t)

\* a worker of camera a executes a statement
WorkerOn(a) == \E w \in DOMAIN threads : threads[w].cid = a /\ WorkerStep(w)

====
